---- MODULE Spec2Model ----
(***************************************************************************)
(* Dependency-graph traversal, cycle resolution and load ordering of       *)
(* DependencyGraph (src/Stage4.py).                                        *)
(*                                                                         *)
(* Python strings are modelled as sequences of tokens, so that joining,    *)
(* splitting, prefix tests, substring tests and lexicographic comparison   *)
(* are computed rather than assumed.  Python dicts are modelled as         *)
(* sequences of [k, v] records in insertion order.                         *)
(***************************************************************************)
EXTENDS Integers, Sequences, FiniteSets, TLC

VARIABLES graph, visited, visiting, cycles, original_dependencies,
          stack, root_called, package_filter, max_depth, cleared,
          phase, load_order, error, fetch_log, cycle_log

vars == <<graph, visited, visiting, cycles, original_dependencies,
          stack, root_called, package_filter, max_depth, cleared,
          phase, load_order, error, fetch_log, cycle_log>>

store == <<graph, visited, visiting, cycles, original_dependencies>>

(***************************************************************************)
(* Bounds of the model.                                                    *)
(***************************************************************************)
MaxDeps == 2

MaxDepthArg == 1

MaxEdges == 4

DefaultMaxDepth == 10

(***************************************************************************)
(* Strings.                                                                *)
(***************************************************************************)
A == <<"A">>

B == <<"B">>

C == <<"C">>

NodeIds == {A, B, C}

ARROW == <<" -> ">>

MAX_DEPTH_REACHED == <<"MAX_DEPTH_REACHED">>

FILTERED == <<"FILTERED">>

CYCLE_PREFIX == <<"CYCLE:">>

ERROR_PREFIX == <<"ERROR:">>

SPACE == <<" ">>

Messages == {<<"not found">>}

Filters == {<<>>, B}

TokenOrd(t) ==
  CASE t = " " -> 32
    [] t = " -> " -> 33
    [] t = "A" -> 65
    [] t = "B" -> 66
    [] t = "C" -> 67
    [] t = "D" -> 68
    [] OTHER -> 127

RECURSIVE StrLess(_, _)
StrLess(s, t) ==
  IF t = <<>> THEN FALSE
  ELSE IF s = <<>> THEN TRUE
  ELSE IF TokenOrd(Head(s)) < TokenOrd(Head(t)) THEN TRUE
  ELSE IF TokenOrd(Head(s)) > TokenOrd(Head(t)) THEN FALSE
  ELSE StrLess(Tail(s), Tail(t))

StartsWith(s, p) ==
  /\ Len(p) <= Len(s)
  /\ SubSeq(s, 1, Len(p)) = p

Contains(s, p) ==
  \E i \in 1..(Len(s) - Len(p) + 1) : SubSeq(s, i, i + Len(p) - 1) = p

RECURSIVE Join(_, _)
Join(sep, parts) ==
  IF parts = <<>> THEN <<>>
  ELSE IF Len(parts) = 1 THEN parts[1]
  ELSE parts[1] \o sep \o Join(sep, Tail(parts))

RECURSIVE Split(_, _)
Split(s, sep) ==
  LET hits == {i \in 1..(Len(s) - Len(sep) + 1) : SubSeq(s, i, i + Len(sep) - 1) = sep}
  IN IF hits = {} THEN <<s>>
     ELSE LET i == CHOOSE h \in hits : \A g \in hits : h <= g
          IN <<SubSeq(s, 1, i - 1)>> \o Split(SubSeq(s, i + Len(sep), Len(s)), sep)

RECURSIVE Min(_)
Min(strs) ==
  IF Len(strs) = 1 THEN strs[1]
  ELSE LET m == Min(Tail(strs))
       IN IF StrLess(m, strs[1]) THEN m ELSE strs[1]

Range(s) == {s[i] : i \in 1..Len(s)}

(***************************************************************************)
(* Dicts in insertion order.                                               *)
(***************************************************************************)
Keys(d) == [i \in 1..Len(d) |-> d[i].k]

KeySet(d) == {d[i].k : i \in 1..Len(d)}

Has(d, k) == k \in KeySet(d)

Get(d, k) == d[CHOOSE i \in 1..Len(d) : d[i].k = k].v

Put(d, k, v) ==
  IF Has(d, k)
  THEN [i \in 1..Len(d) |-> IF d[i].k = k THEN [k |-> k, v |-> v] ELSE d[i]]
  ELSE Append(d, [k |-> k, v |-> v])

IndexOf(s, x) == CHOOSE i \in 1..Len(s) : s[i] = x /\ \A j \in 1..(i - 1) : s[j] # x

Remove(s, x) ==
  LET i == IndexOf(s, x)
  IN SubSeq(s, 1, i - 1) \o SubSeq(s, i + 1, Len(s))

(***************************************************************************)
(* Order Engine: calculate_load_order.                                     *)
(***************************************************************************)
IsSentinelWithoutCycle(dep) ==
  \/ StartsWith(dep, ERROR_PREFIX)
  \/ StartsWith(dep, FILTERED)
  \/ StartsWith(dep, MAX_DEPTH_REACHED)

IsSentinel(dep) ==
  \/ StartsWith(dep, CYCLE_PREFIX)
  \/ StartsWith(dep, ERROR_PREFIX)
  \/ StartsWith(dep, FILTERED)
  \/ StartsWith(dep, MAX_DEPTH_REACHED)

RealDeps(dependencies) == SelectSeq(dependencies, LAMBDA dep : ~IsSentinel(dep))

in_degree(g) == [package \in KeySet(g) |-> Len(RealDeps(Get(g, package)))]

RECURSIVE reverse_graphNewestFirst(_, _)
reverse_graphNewestFirst(g, dep) ==
  IF g = <<>> THEN <<>>
  ELSE LET package == g[Len(g)].k
           hits == SelectSeq(RealDeps(g[Len(g)].v), LAMBDA d : d = dep)
       IN [i \in 1..Len(hits) |-> package]
          \o reverse_graphNewestFirst(SubSeq(g, 1, Len(g) - 1), dep)

RECURSIVE reverse_graph(_, _)
reverse_graph(g, dep) ==
  IF g = <<>> THEN <<>>
  ELSE LET package == g[Len(g)].k
           hits == SelectSeq(RealDeps(g[Len(g)].v), LAMBDA d : d = dep)
       IN reverse_graph(SubSeq(g, 1, Len(g) - 1), dep) \o [i \in 1..Len(hits) |-> package]

InitialQueueAllKeys(g) == Keys(g)

InitialQueue(g) == SelectSeq(Keys(g), LAMBDA package : in_degree(g)[package] = 0)

RECURSIVE Relax(_, _, _)
Relax(queue, indeg, dependents) ==
  IF dependents = <<>> THEN [queue |-> queue, indeg |-> indeg]
  ELSE LET dependent == Head(dependents)
           d == indeg[dependent] - 1
       IN Relax(IF d = 0 THEN Append(queue, dependent) ELSE queue,
                [indeg EXCEPT ![dependent] = d],
                Tail(dependents))

RECURSIVE KahnLoop(_, _, _, _)
KahnLoop(g, queue, order, indeg) ==
  IF queue = <<>> THEN order
  ELSE LET current == Head(queue)
           r == Relax(Tail(queue), indeg, reverse_graph(g, current))
       IN KahnLoop(g, r.queue, Append(order, current), r.indeg)

KahnOrder(g) == KahnLoop(g, InitialQueue(g), <<>>, in_degree(g))

FallbackTailNoMembershipTest(g, order) ==
  IF Len(order) # Len(g) THEN order \o Keys(g) ELSE order

FallbackTailNewestKeyFirst(g, order) ==
  IF Len(order) # Len(g)
  THEN order \o SelectSeq([i \in 1..Len(g) |-> Keys(g)[Len(g) + 1 - i]],
                          LAMBDA package : package \notin Range(order))
  ELSE order

FallbackTail(g, order) ==
  IF Len(order) # Len(g)
  THEN order \o SelectSeq(Keys(g), LAMBDA package : package \notin Range(order))
  ELSE order

calculate_load_order(g) == FallbackTail(g, KahnOrder(g))

(***************************************************************************)
(* Cycle Resolver: _process_cycles.  A pick is list(cycle_set)[0]: the     *)
(* iteration order of a Python set of strings is not determined by the     *)
(* insertion order, so any member of the set may come first.               *)
(***************************************************************************)
CycleDesc(cycle_key) == CYCLE_PREFIX \o SPACE \o cycle_key

ResolveNodeFirstOnPath(g, orig, node, cycle_key) ==
  LET cycle_desc == CycleDesc(cycle_key)
      cycle_nodes == Split(cycle_key, ARROW)
      first_cycle_node == IF cycle_nodes # <<>> THEN cycle_nodes[1] ELSE node
  IN IF node = first_cycle_node
     THEN Put(g, node, <<cycle_desc>>)
     ELSE IF Has(orig, node) THEN Put(g, node, Get(orig, node)) ELSE g

ResolveNodeLargestOnPath(g, orig, node, cycle_key) ==
  LET cycle_desc == CycleDesc(cycle_key)
      cycle_nodes == Split(cycle_key, ARROW)
      first_cycle_node == IF cycle_nodes # <<>>
                          THEN CHOOSE m \in Range(cycle_nodes) :
                                 \A n \in Range(cycle_nodes) : ~StrLess(m, n)
                          ELSE node
  IN IF node = first_cycle_node
     THEN Put(g, node, <<cycle_desc>>)
     ELSE IF Has(orig, node) THEN Put(g, node, Get(orig, node)) ELSE g

ResolveNode(g, orig, node, cycle_key) ==
  LET cycle_desc == CycleDesc(cycle_key)
      cycle_nodes == Split(cycle_key, ARROW)
      first_cycle_node == IF cycle_nodes # <<>> THEN Min(cycle_nodes) ELSE node
  IN IF node = first_cycle_node
     THEN Put(g, node, <<cycle_desc>>)
     ELSE IF Has(orig, node) THEN Put(g, node, Get(orig, node)) ELSE g

RECURSIVE process_cycles(_, _, _, _)
process_cycles(g, cyc, orig, pick) ==
  IF cyc = <<>> THEN g
  ELSE LET node == Head(cyc).k
           cycle_set == Head(cyc).v
           g1 == IF Has(g, node) /\ cycle_set # {}
                 THEN ResolveNode(g, orig, node, Head(pick))
                 ELSE g
       IN process_cycles(g1, Tail(cyc), orig, Tail(pick))

(* One choice of list(cycle_set)[0] for every entry of the registry, in    *)
(* the order of the entries.                                               *)
RECURSIVE Picks(_)
Picks(cyc) ==
  IF cyc = <<>> THEN {<<>>}
  ELSE {<<cycle_key>> \o rest : cycle_key \in Head(cyc).v, rest \in Picks(Tail(cyc))}

(***************************************************************************)
(* Session inputs and the initial state (DependencyGraph.__init__).        *)
(*                                                                         *)
(* A session is either the single-root entry, build_dependency_graph with  *)
(* a filter and a depth limit, or the multi-root entry,                    *)
(* build_complete_dependency_graph, which passes neither and so runs with  *)
(* the defaults.  The list of packages of the multi-root entry does not    *)
(* depend on the store; the model reads it one package at a time, and the  *)
(* list may end after any package.  root_called holds once the entry has   *)
(* reached its first package.                                              *)
(*                                                                         *)
(* fetch_log and cycle_log are history variables of the session: the       *)
(* sequence of Dependency Source queries with their results, and the cycle *)
(* descriptors in the order in which the back edges registered them.       *)
(***************************************************************************)
DepLists ==
  {d \in UNION {[1..n -> NodeIds] : n \in 0..MaxDeps} :
     \A i, j \in 1..Len(d) : i # j => d[i] # d[j]}
  \cup {<<n, n>> : n \in NodeIds}

MaxDepths == (0..MaxDepthArg) \cup {DefaultMaxDepth}

Init ==
  /\ graph = <<>>
  /\ visited = {}
  /\ visiting = <<>>
  /\ cycles = <<>>
  /\ original_dependencies = <<>>
  /\ stack = <<>>
  /\ root_called = FALSE
  /\ package_filter \in Filters
  /\ max_depth \in MaxDepths
  /\ cleared = FALSE
  /\ phase = "build"
  /\ load_order = <<>>
  /\ error = "none"
  /\ fetch_log = <<>>
  /\ cycle_log = <<>>

Defaults == package_filter = <<>> /\ max_depth = DefaultMaxDepth

(***************************************************************************)
(* Traversal Engine: build_dependency_graph, one frame per invocation that *)
(* reaches the expansion; an invocation that returns from one of the four  *)
(* checks is a single step of its caller.                                  *)
(***************************************************************************)
Frame(package_name, depth) ==
  [package_name |-> package_name, depth |-> depth, pc |-> "fetch",
   dependencies |-> <<>>, i |-> 1]

Top == stack[Len(stack)]

Return == SubSeq(stack, 1, Len(stack) - 1)

Goto(pc) == [stack EXCEPT ![Len(stack)].pc = pc]

should_filter_packageNoEmptyTest(package_name, filter) ==
  Contains(package_name, filter)

should_filter_package(package_name, filter) ==
  IF filter = <<>> THEN FALSE ELSE Contains(package_name, filter)

InLoop == stack # <<>> /\ Top.pc = "loop" /\ Top.i <= Len(Top.dependencies)

(* The packages the next call of build_dependency_graph may be made on:    *)
(* the next package of the list, or the current dependency of the loop.    *)
NextPackages ==
  IF phase # "build" THEN {}
  ELSE IF stack = <<>>
  THEN IF Defaults \/ ~root_called THEN NodeIds ELSE {}
  ELSE IF InLoop THEN {Top.dependencies[Top.i]} ELSE {}

CallDepth == IF stack = <<>> THEN 0 ELSE Top.depth + 1

(* The caller's position once the call has been made. *)
CalledNotAdvanced == stack

Called == IF stack = <<>> THEN stack ELSE [stack EXCEPT ![Len(stack)].i = Top.i + 1]

IsCall(package_name) ==
  /\ package_name \in NextPackages
  /\ stack = <<>> => package_name \notin visited

SkipRoot(package_name) ==
  /\ package_name \in NextPackages
  /\ stack = <<>>
  /\ package_name \in visited
  /\ root_called' = TRUE
  /\ UNCHANGED <<store, stack, package_filter, max_depth, cleared, phase, load_order,
                 error, fetch_log, cycle_log>>

DepthCutoffMarksVisited(package_name) ==
  /\ IsCall(package_name)
  /\ CallDepth > max_depth
  /\ graph' = Put(graph, package_name, <<MAX_DEPTH_REACHED>>)
  /\ visited' = visited \cup {package_name}
  /\ stack' = Called
  /\ root_called' = TRUE
  /\ UNCHANGED <<visiting, cycles, original_dependencies,
                 package_filter, max_depth, cleared, phase, load_order, error, fetch_log, cycle_log>>

DepthCutoff(package_name) ==
  /\ IsCall(package_name)
  /\ CallDepth > max_depth
  /\ graph' = Put(graph, package_name, <<MAX_DEPTH_REACHED>>)
  /\ stack' = Called
  /\ root_called' = TRUE
  /\ UNCHANGED <<visited, visiting, cycles, original_dependencies,
                 package_filter, max_depth, cleared, phase, load_order, error, fetch_log, cycle_log>>

FilterLeavesNoEntry(package_name) ==
  /\ IsCall(package_name)
  /\ ~(CallDepth > max_depth)
  /\ should_filter_package(package_name, package_filter)
  /\ graph' = graph
  /\ stack' = Called
  /\ root_called' = TRUE
  /\ UNCHANGED <<visited, visiting, cycles, original_dependencies,
                 package_filter, max_depth, cleared, phase, load_order, error, fetch_log, cycle_log>>

Filter(package_name) ==
  /\ IsCall(package_name)
  /\ ~(CallDepth > max_depth)
  /\ should_filter_package(package_name, package_filter)
  /\ graph' = Put(graph, package_name, <<FILTERED>>)
  /\ stack' = Called
  /\ root_called' = TRUE
  /\ UNCHANGED <<visited, visiting, cycles, original_dependencies,
                 package_filter, max_depth, cleared, phase, load_order, error, fetch_log, cycle_log>>

AddCycle(cyc, cycle_path, cycle_key) ==
  LET fresh == SelectSeq(SubSeq(cycle_path, 1, Len(cycle_path) - 1),
                         LAMBDA node : ~Has(cyc, node))
  IN [i \in 1..Len(cyc) |->
        IF cyc[i].k \in Range(cycle_path)
        THEN [k |-> cyc[i].k, v |-> cyc[i].v \cup {cycle_key}]
        ELSE cyc[i]]
     \o [i \in 1..Len(fresh) |-> [k |-> fresh[i], v |-> {cycle_key}]]

CyclePathOpen(path, package_name) ==
  SubSeq(path, IndexOf(path, package_name), Len(path))

CyclePathWholeVisiting(path, package_name) ==
  path \o <<package_name>>

CyclePathOffByOne(path, package_name) ==
  SubSeq(path, IndexOf(path, package_name) + 1, Len(path)) \o <<package_name>>

CyclePath(path, package_name) ==
  SubSeq(path, IndexOf(path, package_name), Len(path)) \o <<package_name>>

BackEdgeBeforeDepthTest(package_name) ==
  /\ IsCall(package_name)
  /\ ~should_filter_package(package_name, package_filter)
  /\ package_name \in Range(visiting)
  /\ LET cycle_path == CyclePath(visiting, package_name)
         cycle_key == Join(ARROW, cycle_path)
     IN cycles' = AddCycle(cycles, cycle_path, cycle_key)
  /\ graph' = IF Has(graph, package_name) THEN graph ELSE Put(graph, package_name, <<>>)
  /\ stack' = Called
  /\ root_called' = TRUE
  /\ UNCHANGED <<visited, visiting, original_dependencies,
                 package_filter, max_depth, cleared, phase, load_order, error, fetch_log>>
  /\ cycle_log' = LET cycle_key == Join(ARROW, CyclePath(visiting, package_name))
                  IN IF cycle_key \in Range(cycle_log) THEN cycle_log
                     ELSE Append(cycle_log, cycle_key)

BackEdgeNotRegistered(package_name) ==
  /\ IsCall(package_name)
  /\ ~(CallDepth > max_depth)
  /\ ~should_filter_package(package_name, package_filter)
  /\ package_name \in Range(visiting)
  /\ graph' = IF Has(graph, package_name) THEN graph ELSE Put(graph, package_name, <<>>)
  /\ stack' = Called
  /\ root_called' = TRUE
  /\ UNCHANGED <<visited, visiting, cycles, original_dependencies,
                 package_filter, max_depth, cleared, phase, load_order, error, fetch_log,
                 cycle_log>>

BackEdge(package_name) ==
  /\ IsCall(package_name)
  /\ ~(CallDepth > max_depth)
  /\ ~should_filter_package(package_name, package_filter)
  /\ package_name \in Range(visiting)
  /\ LET cycle_path == CyclePath(visiting, package_name)
         cycle_key == Join(ARROW, cycle_path)
     IN cycles' = AddCycle(cycles, cycle_path, cycle_key)
  /\ graph' = IF Has(graph, package_name) THEN graph ELSE Put(graph, package_name, <<>>)
  /\ stack' = Called
  /\ root_called' = TRUE
  /\ UNCHANGED <<visited, visiting, original_dependencies,
                 package_filter, max_depth, cleared, phase, load_order, error, fetch_log>>
  /\ cycle_log' = LET cycle_key == Join(ARROW, CyclePath(visiting, package_name))
                  IN IF cycle_key \in Range(cycle_log) THEN cycle_log
                     ELSE Append(cycle_log, cycle_key)

AlreadyVisited(package_name) ==
  /\ IsCall(package_name)
  /\ ~(CallDepth > max_depth)
  /\ ~should_filter_package(package_name, package_filter)
  /\ package_name \notin Range(visiting)
  /\ package_name \in visited
  /\ stack' = Called
  /\ root_called' = TRUE
  /\ UNCHANGED <<store, package_filter, max_depth, cleared, phase, load_order, error,
                 fetch_log, cycle_log>>

BeginExpandNoVisitedCheck(package_name) ==
  /\ IsCall(package_name)
  /\ ~(CallDepth > max_depth)
  /\ ~should_filter_package(package_name, package_filter)
  /\ package_name \notin Range(visiting)
  /\ visiting' = Append(visiting, package_name)
  /\ stack' = Append(Called, Frame(package_name, CallDepth))
  /\ root_called' = TRUE
  /\ cleared' = FALSE
  /\ UNCHANGED <<graph, visited, cycles, original_dependencies,
                 package_filter, max_depth, phase, load_order, error, fetch_log, cycle_log>>

BeginExpand(package_name) ==
  /\ IsCall(package_name)
  /\ ~(CallDepth > max_depth)
  /\ ~should_filter_package(package_name, package_filter)
  /\ package_name \notin Range(visiting)
  /\ package_name \notin visited
  /\ visiting' = Append(visiting, package_name)
  /\ stack' = Append(Called, Frame(package_name, CallDepth))
  /\ root_called' = TRUE
  /\ cleared' = FALSE
  /\ UNCHANGED <<graph, visited, cycles, original_dependencies,
                 package_filter, max_depth, phase, load_order, error, fetch_log, cycle_log>>

(* The lists the Dependency Source may answer the pending query with: the  *)
(* source as a whole holds at most MaxEdges dependency entries.            *)
RECURSIVE Entries(_)
Entries(log) ==
  IF log = <<>> THEN 0
  ELSE (IF Head(log).ok THEN Len(Head(log).result) ELSE 0) + Entries(Tail(log))

Answers == {dependencies \in DepLists : Entries(fetch_log) + Len(dependencies) <= MaxEdges}

FetchOkNoSnapshot ==
  /\ phase = "build" /\ stack # <<>> /\ Top.pc = "fetch"
  /\ \E dependencies \in Answers :
       /\ graph' = Put(graph, Top.package_name, dependencies)
       /\ stack' = [stack EXCEPT ![Len(stack)].pc = "loop",
                                 ![Len(stack)].dependencies = dependencies]
       /\ fetch_log' = Append(fetch_log, [node |-> Top.package_name, ok |-> TRUE,
                                          result |-> dependencies])
  /\ UNCHANGED <<visited, visiting, cycles, original_dependencies, root_called,
                 package_filter, max_depth, cleared, phase, load_order, error, cycle_log>>

FetchOk ==
  /\ phase = "build" /\ stack # <<>> /\ Top.pc = "fetch"
  /\ \E dependencies \in Answers :
       /\ original_dependencies' = Put(original_dependencies, Top.package_name, dependencies)
       /\ graph' = Put(graph, Top.package_name, dependencies)
       /\ stack' = [stack EXCEPT ![Len(stack)].pc = "loop",
                                 ![Len(stack)].dependencies = dependencies]
       /\ fetch_log' = Append(fetch_log, [node |-> Top.package_name, ok |-> TRUE,
                                          result |-> dependencies])
  /\ UNCHANGED <<visited, visiting, cycles, root_called, package_filter, max_depth, cleared,
                 phase, load_order, error, cycle_log>>

ErrorLabel(message) == ERROR_PREFIX \o SPACE \o message

FetchFailNoCleanup ==
  /\ phase = "build" /\ stack # <<>> /\ Top.pc = "fetch"
  /\ \E message \in Messages :
       /\ graph' = Put(graph, Top.package_name, <<ErrorLabel(message)>>)
       /\ fetch_log' = Append(fetch_log, [node |-> Top.package_name, ok |-> FALSE,
                                          result |-> message])
  /\ visiting' = Remove(visiting, Top.package_name)
  /\ stack' = Return
  /\ UNCHANGED <<visited, cycles, original_dependencies, root_called,
                 package_filter, max_depth, cleared, phase, load_order, error, cycle_log>>

FetchFailLeavesNoEntry ==
  /\ phase = "build" /\ stack # <<>> /\ Top.pc = "fetch"
  /\ \E message \in Messages :
       /\ graph' = graph
       /\ fetch_log' = Append(fetch_log, [node |-> Top.package_name, ok |-> FALSE,
                                          result |-> message])
  /\ stack' = Goto("finally")
  /\ UNCHANGED <<visited, visiting, cycles, original_dependencies, root_called,
                 package_filter, max_depth, cleared, phase, load_order, error, cycle_log>>

FetchFail ==
  /\ phase = "build" /\ stack # <<>> /\ Top.pc = "fetch"
  /\ \E message \in Messages :
       /\ graph' = Put(graph, Top.package_name, <<ErrorLabel(message)>>)
       /\ fetch_log' = Append(fetch_log, [node |-> Top.package_name, ok |-> FALSE,
                                          result |-> message])
  /\ stack' = Goto("finally")
  /\ UNCHANGED <<visited, visiting, cycles, original_dependencies, root_called,
                 package_filter, max_depth, cleared, phase, load_order, error, cycle_log>>

FinallyRemoveOnSuccessOnly ==
  /\ phase = "build" /\ stack # <<>>
  /\ \/ Top.pc = "finally" /\ visiting' = visiting
     \/ /\ Top.pc = "loop" /\ Top.i > Len(Top.dependencies)
        /\ visiting' = Remove(visiting, Top.package_name)
  /\ stack' = Goto("add")
  /\ UNCHANGED <<graph, visited, cycles, original_dependencies, root_called,
                 package_filter, max_depth, cleared, phase, load_order, error, fetch_log, cycle_log>>

FinallyRemove ==
  /\ phase = "build" /\ stack # <<>>
  /\ \/ Top.pc = "finally"
     \/ Top.pc = "loop" /\ Top.i > Len(Top.dependencies)
  /\ visiting' = Remove(visiting, Top.package_name)
  /\ stack' = Goto("add")
  /\ UNCHANGED <<graph, visited, cycles, original_dependencies, root_called,
                 package_filter, max_depth, cleared, phase, load_order, error, fetch_log, cycle_log>>

FinallyAdd ==
  /\ phase = "build" /\ stack # <<>> /\ Top.pc = "add"
  /\ visited' = visited \cup {Top.package_name}
  /\ stack' = Return
  /\ UNCHANGED <<graph, visiting, cycles, original_dependencies, root_called,
                 package_filter, max_depth, cleared, phase, load_order, error, fetch_log, cycle_log>>

(***************************************************************************)
(* The follow-ups of a session: _process_cycles, then display_load_order.  *)
(* The single-root entry has made its one call; the list of the multi-root *)
(* entry may end after any number of packages.                             *)
(***************************************************************************)
TraversalDone ==
  /\ phase = "build"
  /\ stack = <<>>
  /\ Defaults \/ root_called

ProcessCyclesMidTraversal ==
  /\ phase = "build"
  /\ Defaults \/ root_called
  /\ \E pick \in Picks(cycles) :
       graph' = process_cycles(graph, cycles, original_dependencies, pick)
  /\ phase' = "resolved"
  /\ cleared' = FALSE
  /\ UNCHANGED <<visited, visiting, cycles, original_dependencies, stack,
                 root_called, package_filter, max_depth, load_order, error,
                 fetch_log, cycle_log>>

ProcessCycles ==
  /\ TraversalDone
  /\ \E pick \in Picks(cycles) :
       graph' = process_cycles(graph, cycles, original_dependencies, pick)
  /\ phase' = "resolved"
  /\ cleared' = FALSE
  /\ UNCHANGED <<visited, visiting, cycles, original_dependencies, stack,
                 root_called, package_filter, max_depth, load_order, error,
                 fetch_log, cycle_log>>

CalculateLoadOrderNoEmptyCheck ==
  /\ phase = "resolved"
  /\ error' = error
  /\ load_order' = calculate_load_order(graph)
  /\ phase' = "done"
  /\ UNCHANGED <<store, stack, root_called, package_filter, max_depth, cleared, fetch_log, cycle_log>>

CalculateLoadOrderSortsGraph ==
  /\ phase = "resolved"
  /\ IF graph = <<>>
     THEN /\ error' = "ValueError"
          /\ load_order' = load_order
          /\ graph' = graph
     ELSE /\ error' = error
          /\ load_order' = calculate_load_order(graph)
          /\ graph' = [i \in 1..Len(graph) |->
                         [k |-> calculate_load_order(graph)[i],
                          v |-> Get(graph, calculate_load_order(graph)[i])]]
  /\ phase' = "done"
  /\ UNCHANGED <<visited, visiting, cycles, original_dependencies, stack,
                 root_called, package_filter, max_depth, cleared, fetch_log, cycle_log>>

CalculateLoadOrder ==
  /\ phase = "resolved"
  /\ IF graph = <<>>
     THEN /\ error' = "ValueError"
          /\ load_order' = load_order
     ELSE /\ error' = error
          /\ load_order' = calculate_load_order(graph)
  /\ phase' = "done"
  /\ UNCHANGED <<store, stack, root_called, package_filter, max_depth, cleared, fetch_log, cycle_log>>

Traverse ==
  \/ \E package_name \in NodeIds : SkipRoot(package_name)
  \/ \E package_name \in NodeIds : DepthCutoff(package_name)
  \/ \E package_name \in NodeIds : Filter(package_name)
  \/ \E package_name \in NodeIds : BackEdge(package_name)
  \/ \E package_name \in NodeIds : AlreadyVisited(package_name)
  \/ \E package_name \in NodeIds : BeginExpand(package_name)
  \/ FetchOk
  \/ FetchFail
  \/ FinallyRemove
  \/ FinallyAdd

Next ==
  \/ \E package_name \in NodeIds : SkipRoot(package_name)
  \/ \E package_name \in NodeIds : DepthCutoff(package_name)
  \/ \E package_name \in NodeIds : Filter(package_name)
  \/ \E package_name \in NodeIds : BackEdge(package_name)
  \/ \E package_name \in NodeIds : AlreadyVisited(package_name)
  \/ \E package_name \in NodeIds : BeginExpand(package_name)
  \/ FetchOk
  \/ FetchFail
  \/ FinallyRemove
  \/ FinallyAdd
  \/ ProcessCycles
  \/ CalculateLoadOrder

Spec == Init /\ [][Next]_vars

(***************************************************************************)
(* Sessions on one store: each test case of demonstrate_on_test_cases, and *)
(* interactive_test_mode, clears the five structures and runs the          *)
(* multi-root entry, build_complete_dependency_graph, which runs with the  *)
(* defaults: the filter is empty, and no chain over NodeIds is longer than *)
(* the default depth limit.  cleared holds from the clearing of an earlier *)
(* session's data until the new session makes its first call; fetch_log is *)
(* the log of the current session.                                         *)
(***************************************************************************)
(* The arguments build_complete_dependency_graph passes for every package  *)
(* of its list, whatever filter the configuration holds: the call names    *)
(* neither package_filter nor max_depth, so both take their defaults.      *)
build_complete_dependency_graphWithFilter(configured) ==
  [package_filter |-> configured, max_depth |-> DefaultMaxDepth]

build_complete_dependency_graph(configured) ==
  [package_filter |-> <<>>, max_depth |-> DefaultMaxDepth]

NewSessionKeepsVisited ==
  /\ phase = "done"
  /\ graph' = <<>>
  /\ visited' = visited
  /\ visiting' = <<>>
  /\ cycles' = <<>>
  /\ original_dependencies' = <<>>
  /\ stack' = <<>>
  /\ root_called' = FALSE
  /\ \E configured \in Filters :
       /\ package_filter' = build_complete_dependency_graph(configured).package_filter
       /\ max_depth' = build_complete_dependency_graph(configured).max_depth
  /\ cleared' = (graph # <<>>)
  /\ phase' = "build"
  /\ load_order' = <<>>
  /\ error' = "none"
  /\ fetch_log' = <<>>
  /\ cycle_log' = <<>>

NewSession ==
  /\ phase = "done"
  /\ graph' = <<>>
  /\ visited' = {}
  /\ visiting' = <<>>
  /\ cycles' = <<>>
  /\ original_dependencies' = <<>>
  /\ stack' = <<>>
  /\ root_called' = FALSE
  /\ \E configured \in Filters :
       /\ package_filter' = build_complete_dependency_graph(configured).package_filter
       /\ max_depth' = build_complete_dependency_graph(configured).max_depth
  /\ cleared' = (graph # <<>>)
  /\ phase' = "build"
  /\ load_order' = <<>>
  /\ error' = "none"
  /\ fetch_log' = <<>>
  /\ cycle_log' = <<>>

SessionsInit ==
  /\ Init
  /\ \E configured \in Filters :
       /\ package_filter = build_complete_dependency_graph(configured).package_filter
       /\ max_depth = build_complete_dependency_graph(configured).max_depth

SessionsNext ==
  \/ \E package_name \in NodeIds : SkipRoot(package_name)
  \/ \E package_name \in NodeIds : BackEdge(package_name)
  \/ \E package_name \in NodeIds : AlreadyVisited(package_name)
  \/ \E package_name \in NodeIds : BeginExpand(package_name)
  \/ FetchOk
  \/ FetchFail
  \/ FinallyRemove
  \/ FinallyAdd
  \/ ProcessCycles
  \/ CalculateLoadOrder
  \/ NewSession

SessionsSpec == SessionsInit /\ [][SessionsNext]_vars

FairSpec == Init /\ [][Traverse]_vars /\ WF_vars(Traverse)


(***************************************************************************)
(* Vocabulary of the properties.                                           *)
(***************************************************************************)
Last(s) == s[Len(s)]

Position(order, n) == CHOOSE i \in 1..Len(order) : order[i] = n

RealEdge(g, package, dep) ==
  /\ Has(g, package)
  /\ \E i \in 1..Len(Get(g, package)) :
       Get(g, package)[i] = dep /\ ~IsSentinel(dep)

(* p[1] -> p[2] -> ... -> p[Len(p)] -> p[1] is a directed cycle of real edges *)
IsRealCycle(g, p) ==
  /\ \A i \in 1..(Len(p) - 1) : RealEdge(g, p[i], p[i + 1])
  /\ RealEdge(g, p[Len(p)], p[1])

Acyclic(g) ==
  \A n \in 1..Len(g) : \A p \in [1..n -> KeySet(g)] : ~IsRealCycle(g, p)

IsCycleEntry(dependencies) ==
  Len(dependencies) = 1 /\ StartsWith(dependencies[1], CYCLE_PREFIX)

Failed(n) == \E k \in 1..Len(fetch_log) : fetch_log[k].node = n /\ ~fetch_log[k].ok

Descriptors == UNION {cycles[i].v : i \in 1..Len(cycles)}

(***************************************************************************)
(* C1: for every non-empty Graph the sequence returned by                  *)
(* calculate_load_order is a permutation of the Graph keys: same length,   *)
(* every key exactly once.                                                 *)
(***************************************************************************)
LoadOrderIsPermutation ==
  (phase = "done" /\ graph # <<>>) =>
     /\ Len(load_order) = Len(graph)
     /\ Range(load_order) = KeySet(graph)
     /\ \A i, j \in 1..Len(load_order) : load_order[i] = load_order[j] => i = j

LoadOrderUsesFallback ==
  /\ phase = "done"
  /\ Len(graph) = 3
  /\ Len(KahnOrder(graph)) < 3
  /\ \E i \in 1..Len(graph) : graph[i].v = <<ErrorLabel(<<"not found">>)>>

(***************************************************************************)
(* C2: when the real (non-sentinel) edges of the Graph contain no directed *)
(* cycle, every node comes in the load order after every node it has a     *)
(* real edge to.                                                           *)
(***************************************************************************)
DependenciesLoadFirst ==
  (phase = "done" /\ graph # <<>> /\ Acyclic(graph)) =>
     \A package \in KeySet(graph) : \A dep \in Range(RealDeps(Get(graph, package))) :
        /\ dep \in Range(load_order)
        /\ package \in Range(load_order)
        /\ Position(load_order, dep) < Position(load_order, package)

DiamondOrdered ==
  /\ phase = "done"
  /\ Acyclic(graph)
  /\ Len(graph) = 3
  /\ \E x, y, z \in KeySet(graph) :
       /\ x # y /\ y # z /\ x # z
       /\ Get(graph, x) = <<y, z>>
       /\ Get(graph, y) = <<z>>
       /\ load_order = <<z, y, x>>

(***************************************************************************)
(* C3: at every point of every traversal no NodeId is both in Visited and  *)
(* on VisitingPath; a node is added to Visited only by the frame that has  *)
(* just removed it from VisitingPath, and is never removed from Visited.   *)
(***************************************************************************)
VisitedDisjointFromVisiting ==
  /\ [](visited \cap Range(visiting) = {})
  /\ [][/\ visited \subseteq visited'
        /\ \A n \in visited' \ visited :
              /\ stack # <<>>
              /\ Top.pc = "add"
              /\ Top.package_name = n
              /\ n \notin Range(visiting)
              /\ visiting' = visiting]_vars

BetweenRemoveAndAdd ==
  /\ stack # <<>>
  /\ Top.pc = "add"
  /\ visiting # <<>>
  /\ visited # {}
  /\ Top.package_name \notin visited
  /\ Top.package_name \notin Range(visiting)

(***************************************************************************)
(* C4: when a top-level Expand or ExpandAll call has returned,             *)
(* VisitingPath is empty, whatever happened during the traversal.          *)
(***************************************************************************)
VisitingEmptyOnReturn == stack = <<>> => visiting = <<>>

ReturnedAfterCycleAndFailure ==
  /\ TraversalDone
  /\ cycles # <<>>
  /\ \E n \in NodeIds : Failed(n)
  /\ visiting = <<>>

(***************************************************************************)
(* C5: a failing Dependency Source call for X does not fail Expand:        *)
(* Graph[X] becomes [ERROR: <message>], no dependency of X is explored, X  *)
(* gets no OriginalDependencies entry, X ends in Visited, and the          *)
(* remaining siblings of X are still expanded and recorded in Graph.       *)
(***************************************************************************)
FetchFailureContained ==
  \A k \in 1..Len(fetch_log) :
     ~fetch_log[k].ok =>
        LET X == fetch_log[k].node
        IN /\ Has(graph, X)
           /\ ~Has(original_dependencies, X)
           /\ \A j \in 1..Len(stack) :
                 stack[j].package_name = X =>
                    /\ j = Len(stack)
                    /\ stack[j].dependencies = <<>>
                    /\ stack[j].pc \in {"finally", "add"}
                    /\ Get(graph, X) = <<ErrorLabel(fetch_log[k].result)>>
           /\ (\A j \in 1..Len(stack) : stack[j].package_name # X) => X \in visited
           /\ \A m \in 1..Len(fetch_log) :
                 (fetch_log[m].ok /\ fetch_log[m].node \in visited) =>
                    Range(fetch_log[m].result) \subseteq KeySet(graph)

SiblingAfterFailureRecorded ==
  /\ TraversalDone
  /\ \E m \in 1..Len(fetch_log) : \E x, y \in NodeIds :
       /\ fetch_log[m].ok
       /\ fetch_log[m].result = <<x, y>>
       /\ Failed(x)
       /\ ~Failed(y)
       /\ x \in visited
       /\ Get(graph, x) = <<ErrorLabel(<<"not found">>)>>
       /\ Has(original_dependencies, y)

(***************************************************************************)
(* C6: for every dependency relation, filter and maxDepth the traversal    *)
(* terminates, provided each source call returns or fails.                 *)
(***************************************************************************)
Terminates == []<>(stack = <<>>)

TerminatedAroundCycle ==
  /\ TraversalDone
  /\ \E n \in NodeIds : Has(cycles, n) /\ Join(ARROW, <<n, n>>) \in Get(cycles, n)
  /\ \E n \in NodeIds : Has(cycles, n) /\ \E d \in Get(cycles, n) : Len(Split(d, ARROW)) > 2

(***************************************************************************)
(* C7 as stated: after ResolveCycles, for every cycle descriptor recorded  *)
(* in CycleRegistry exactly one node of its path, the lexicographically    *)
(* smallest, has a single-element [CYCLE: ...] Graph entry, also when      *)
(* cycles share nodes.                                                     *)
(***************************************************************************)
CycleNodes(d) == Range(Split(d, ARROW))

Collapsed(d) == {x \in CycleNodes(d) : Has(graph, x) /\ IsCycleEntry(Get(graph, x))}

OneRepresentativePerCycle ==
  phase \in {"resolved", "done"} =>
     \A d \in Descriptors : Collapsed(d) = {Min(Split(d, ARROW))}

(***************************************************************************)
(* C7 amended: after ResolveCycles, for every cycle descriptor whose path  *)
(* nodes are registered against no other descriptor, exactly one node of   *)
(* the path, the lexicographically smallest, has a single-element          *)
(* [CYCLE: ...] Graph entry, and that entry names this descriptor.         *)
(***************************************************************************)
Unshared(d) == \A x \in CycleNodes(d) : Has(cycles, x) /\ Get(cycles, x) = {d}

OneRepresentativePerUnsharedCycle ==
  phase \in {"resolved", "done"} =>
     \A d \in Descriptors :
        Unshared(d) =>
           /\ Collapsed(d) = {Min(Split(d, ARROW))}
           /\ Get(graph, Min(Split(d, ARROW))) = <<CycleDesc(d)>>

RepresentativeIsNotTheEntryNode ==
  /\ phase = "resolved"
  /\ \E d \in Descriptors :
       /\ Unshared(d)
       /\ Len(Split(d, ARROW)) = 4
       /\ Split(d, ARROW)[1] # Min(Split(d, ARROW))
       /\ Get(graph, Min(Split(d, ARROW))) = <<CycleDesc(d)>>
       /\ ~IsCycleEntry(Get(graph, Split(d, ARROW)[1]))

(***************************************************************************)
(* C8: calling Expand on a node that is already in Visited is a  *)
(* no-op for every value of the depth argument: the store is unchanged,    *)
(* the Dependency Source is not queried and no recursive call is made.     *)
(***************************************************************************)
ExpandOfVisitedIsNoOp ==
  [][(phase = "build" /\ InLoop /\ Top.dependencies[Top.i] \in visited) =>
        /\ UNCHANGED store
        /\ fetch_log' = fetch_log
        /\ stack' = Called]_vars

(***************************************************************************)
(* C9: calculate_load_order fails with the graph-empty error exactly when  *)
(* Graph has no keys, returning no order then, and raises no error for a   *)
(* non-empty Graph.                                                        *)
(***************************************************************************)
EmptyGraphIsTheOnlyError ==
  phase = "done" =>
     /\ error = "ValueError" <=> graph = <<>>
     /\ error = "ValueError" => load_order = <<>>
     /\ error # "ValueError" => error = "none" /\ load_order # <<>>

EmptyGraphRejected ==
  /\ phase = "done"
  /\ graph = <<>>
  /\ error = "ValueError"
  /\ ~root_called
  /\ fetch_log = <<>>

(***************************************************************************)
(* C10: for the source A->B, B->C, C->A, a traversal from A followed by    *)
(* ResolveCycles ends with CycleRegistry entries for A, B and C,           *)
(* Graph[A] = [CYCLE: A -> B -> C -> A], B and C keeping their real edges  *)
(* [C] and [A], and the load order holds A, B and C each exactly once.     *)
(***************************************************************************)
ScenarioCSource ==
  /\ package_filter = <<>>
  /\ max_depth = DefaultMaxDepth
  /\ fetch_log = << [node |-> A, ok |-> TRUE, result |-> <<B>>],
                    [node |-> B, ok |-> TRUE, result |-> <<C>>],
                    [node |-> C, ok |-> TRUE, result |-> <<A>>] >>

ScenarioCResolved ==
  (ScenarioCSource /\ phase = "done") =>
     /\ KeySet(cycles) = {A, B, C}
     /\ \A n \in {A, B, C} :
           Get(cycles, n) = {<<"A", " -> ", "B", " -> ", "C", " -> ", "A">>}
     /\ Get(graph, A) = << <<"CYCLE:", " ", "A", " -> ", "B", " -> ", "C", " -> ", "A">> >>
     /\ Get(graph, B) = <<C>>
     /\ Get(graph, C) = <<A>>
     /\ Len(load_order) = 3
     /\ Range(load_order) = {A, B, C}

ScenarioCDone == ScenarioCSource /\ phase = "done" /\ Len(load_order) = 3

(***************************************************************************)
(* C11: in a single-root traversal of a simple chain longer than           *)
(* maxDepth+1 the node at depth maxDepth+1 ends with the Graph entry       *)
(* [MAX_DEPTH_REACHED], is never fetched and is in neither Visited nor     *)
(* VisitingPath, no deeper node gets a Graph entry, and the node at depth  *)
(* maxDepth is still fetched and expanded.                                 *)
(***************************************************************************)
LogNodes == {fetch_log[k].node : k \in 1..Len(fetch_log)}

(* Every fetch so far succeeded with one dependency, a node not met before, *)
(* which is the node of the next fetch.                                    *)
SimpleChain ==
  /\ fetch_log # <<>>
  /\ \A k \in 1..Len(fetch_log) :
        /\ fetch_log[k].ok
        /\ Len(fetch_log[k].result) = 1
        /\ \A j \in 1..k : fetch_log[j].node # fetch_log[k].result[1]
        /\ k < Len(fetch_log) => fetch_log[k + 1].node = fetch_log[k].result[1]

ChainCutAtMaxDepth ==
  (phase = "build" /\ stack = <<>> /\ SimpleChain
     /\ ~should_filter_package(Last(fetch_log).result[1], package_filter)) =>
     LET cut == Last(fetch_log).result[1]
     IN /\ Len(fetch_log) = max_depth + 1
        /\ Get(graph, cut) = <<MAX_DEPTH_REACHED>>
        /\ cut \notin LogNodes
        /\ cut \notin visited
        /\ cut \notin Range(visiting)
        /\ ~Has(original_dependencies, cut)
        /\ KeySet(graph) = LogNodes \cup {cut}
        /\ visited = LogNodes
        /\ \A k \in 1..Len(fetch_log) :
              Get(graph, fetch_log[k].node) = fetch_log[k].result

ChainOfThreeCutAtDepthTwo ==
  /\ phase = "build" /\ stack = <<>> /\ SimpleChain
  /\ max_depth = 1
  /\ Len(fetch_log) = 2
  /\ Len(graph) = 3
  /\ Get(graph, Last(fetch_log).result[1]) = <<MAX_DEPTH_REACHED>>

(***************************************************************************)
(* C12: when the filter is non-empty and a substring of the node (and      *)
(* depth <= maxDepth) Expand records Graph[node] = [FILTERED], does not    *)
(* query the Dependency Source for the node, explores none of its          *)
(* dependencies and leaves Visited, VisitingPath, OriginalDependencies and *)
(* CycleRegistry unchanged; with an empty filter no node is ever recorded  *)
(* as FILTERED.                                                            *)
(***************************************************************************)
Matching == {n \in NodeIds : package_filter # <<>> /\ Contains(n, package_filter)}

FilteredNodeIsOnlyRecorded ==
  /\ [](\A n \in Matching :
          /\ n \notin LogNodes
          /\ n \notin visited
          /\ n \notin Range(visiting)
          /\ ~Has(original_dependencies, n)
          /\ ~Has(cycles, n)
          /\ \A j \in 1..Len(stack) : stack[j].package_name # n
          /\ Has(graph, n) => Get(graph, n) \in {<<FILTERED>>, <<MAX_DEPTH_REACHED>>})
  /\ [](package_filter = <<>> =>
          \A i \in 1..Len(graph) : \A j \in 1..Len(graph[i].v) :
             ~StartsWith(graph[i].v[j], FILTERED))
  /\ [][(phase = "build" /\ InLoop /\ Top.dependencies[Top.i] \in Matching
           /\ Top.depth + 1 <= max_depth) =>
            /\ graph' = Put(graph, Top.dependencies[Top.i], <<FILTERED>>)
            /\ UNCHANGED <<visited, visiting, original_dependencies, cycles, fetch_log>>
            /\ stack' = Called]_vars

FilteredDependencySkipped ==
  /\ phase = "build" /\ stack = <<>>
  /\ package_filter = B
  /\ Has(graph, B) /\ Get(graph, B) = <<FILTERED>>
  /\ \E k \in 1..Len(fetch_log) :
        /\ fetch_log[k].ok
        /\ fetch_log[k].result = <<B, C>>
        /\ C \in LogNodes

(***************************************************************************)
(* The diamond A->B, A->C, B->D, C->D over four nodes, for the Order       *)
(* Engine alone.  The Graph is the one a traversal with the default        *)
(* settings leaves: keys in the order of first expansion, roots taken in   *)
(* the order of the list of packages; D has no dependencies or its fetch   *)
(* failed.  No cycle is registered, so _process_cycles has changed nothing.*)
(***************************************************************************)
D == <<"D">>

DiamondNodes == {A, B, C, D}

DiamondSources ==
  {[n \in DiamondNodes |->
      IF n = A THEN ab ELSE IF n = D THEN <<>> ELSE <<D>>] : ab \in {<<B, C>>, <<C, B>>}}

DiamondRoots ==
  {r \in UNION {[1..n -> DiamondNodes] : n \in 1..4} :
     \A i, j \in 1..Len(r) : i # j => r[i] # r[j]}

RECURSIVE Preorder(_, _, _)
RECURSIVE PreorderAll(_, _, _)
Preorder(src, order, package_name) ==
  IF package_name \in Range(order) THEN order
  ELSE PreorderAll(src, Append(order, package_name), src[package_name])

PreorderAll(src, order, packages) ==
  IF packages = <<>> THEN order
  ELSE PreorderAll(src, Preorder(src, order, Head(packages)), Tail(packages))

OrderInit ==
  \E src \in DiamondSources, roots \in DiamondRoots, failed \in SUBSET {D} :
     LET order == PreorderAll(src, <<>>, roots)
         ok == SelectSeq(order, LAMBDA n : n \notin failed)
     IN /\ graph = [i \in 1..Len(order) |->
                      [k |-> order[i],
                       v |-> IF order[i] \in failed
                             THEN <<ErrorLabel(<<"not found">>)>>
                             ELSE src[order[i]]]]
        /\ original_dependencies = [i \in 1..Len(ok) |-> [k |-> ok[i], v |-> src[ok[i]]]]
        /\ fetch_log = [i \in 1..Len(order) |->
                          IF order[i] \in failed
                          THEN [node |-> order[i], ok |-> FALSE, result |-> <<"not found">>]
                          ELSE [node |-> order[i], ok |-> TRUE, result |-> src[order[i]]]]
        /\ visited = Range(order)
        /\ visiting = <<>>
        /\ cycles = <<>>
        /\ cycle_log = <<>>
        /\ stack = <<>>
        /\ root_called = TRUE
        /\ package_filter = <<>>
        /\ max_depth = DefaultMaxDepth
        /\ cleared = FALSE
        /\ phase = "resolved"
        /\ load_order = <<>>
        /\ error = "none"

OrderSpec == OrderInit /\ [][CalculateLoadOrder]_vars

(***************************************************************************)
(* C13: for the diamond A->B, A->C, B->D, C->D, D without dependencies,    *)
(* the load order places D before B and C and B and C before A, and B and  *)
(* C come in the order in which they appear among the Graph keys.          *)
(***************************************************************************)
DiamondLoadOrder ==
  (phase = "done" /\ KeySet(graph) = DiamondNodes) =>
     /\ Len(load_order) = 4
     /\ Range(load_order) = DiamondNodes
     /\ Position(load_order, D) < Position(load_order, B)
     /\ Position(load_order, D) < Position(load_order, C)
     /\ Position(load_order, B) < Position(load_order, A)
     /\ Position(load_order, C) < Position(load_order, A)
     /\ Position(load_order, B) < Position(load_order, C)
           <=> Position(Keys(graph), B) < Position(Keys(graph), C)

DiamondFromRootA ==
  /\ phase = "done"
  /\ Keys(graph) = <<A, C, D, B>>
  /\ Get(graph, A) = <<C, B>>
  /\ Get(graph, D) = <<>>
  /\ load_order = <<D, C, B, A>>

(***************************************************************************)
(* C14: ComputeLoadOrder only reads the Graph Store: after it returns or   *)
(* fails, Graph (keys, key order, edge lists), Visited, VisitingPath,      *)
(* CycleRegistry and OriginalDependencies are as they were before.         *)
(***************************************************************************)
LoadOrderReadsOnly ==
  [][phase = "resolved" =>
       /\ graph' = graph
       /\ visited' = visited
       /\ visiting' = visiting
       /\ cycles' = cycles
       /\ original_dependencies' = original_dependencies]_vars

OrderedWithFallbackStoreKept ==
  /\ phase = "done"
  /\ error = "none"
  /\ Len(graph) = 3
  /\ load_order # Keys(graph)
  /\ Len(KahnOrder(graph)) < 3
  /\ cycles # <<>>

(***************************************************************************)
(* C15: within one session OriginalDependencies[node] is written at most   *)
(* once per node, only when the node's fetch succeeds, with exactly the    *)
(* list the source returned, and is never changed afterwards by later      *)
(* Expand calls or by ResolveCycles; the Dependency Source is queried at   *)
(* most once per node.                                                     *)
(***************************************************************************)
SnapshotWrittenOnce ==
  /\ [](\A k, j \in 1..Len(fetch_log) :
          fetch_log[k].node = fetch_log[j].node => k = j)
  /\ [](/\ KeySet(original_dependencies)
             = {fetch_log[k].node : k \in {i \in 1..Len(fetch_log) : fetch_log[i].ok}}
        /\ \A k \in 1..Len(fetch_log) :
              fetch_log[k].ok =>
                 Get(original_dependencies, fetch_log[k].node) = fetch_log[k].result)
  /\ [][/\ \A n \in KeySet(original_dependencies) :
              /\ Has(original_dependencies', n)
              /\ Get(original_dependencies', n) = Get(original_dependencies, n)
        /\ original_dependencies' # original_dependencies =>
              /\ Len(fetch_log') = Len(fetch_log) + 1
              /\ Last(fetch_log').ok
              /\ original_dependencies'
                    = Append(original_dependencies,
                             [k |-> Last(fetch_log').node, v |-> Last(fetch_log').result])]_vars

SnapshotKeptThroughResolution ==
  /\ phase = "resolved"
  /\ Len(original_dependencies) = 2
  /\ \E n \in NodeIds : Failed(n)
  /\ \E n \in KeySet(original_dependencies) :
        /\ IsCycleEntry(Get(graph, n))
        /\ ~IsCycleEntry(Get(original_dependencies, n))

(***************************************************************************)
(* C16: whenever a new session is started on a store that may hold data of *)
(* an earlier session, Graph, Visited, VisitingPath, CycleRegistry and     *)
(* OriginalDependencies are all empty when the first Expand of the new     *)
(* session is called, so no node, edge or cycle of an earlier session      *)
(* appears in the later session's Graph or load order.                     *)
(***************************************************************************)
Reached == LogNodes \cup UNION {Range(fetch_log[k].result) : k \in {i \in 1..Len(fetch_log) : fetch_log[i].ok}}

SessionStartsEmpty ==
  /\ [][phase = "done" =>
          /\ graph' = <<>>
          /\ visited' = {}
          /\ visiting' = <<>>
          /\ cycles' = <<>>
          /\ original_dependencies' = <<>>]_vars
  /\ []((phase = "build" /\ ~root_called /\ stack = <<>>) =>
          /\ graph = <<>>
          /\ visited = {}
          /\ visiting = <<>>
          /\ cycles = <<>>
          /\ original_dependencies = <<>>)
  /\ [](/\ KeySet(graph) \subseteq LogNodes
        /\ visited \subseteq LogNodes
        /\ KeySet(cycles) \subseteq LogNodes
        /\ Range(load_order) \subseteq LogNodes
        /\ \A i \in 1..Len(graph) : \A j \in 1..Len(graph[i].v) :
              \/ graph[i].v[j] \in Reached
              \/ IsSentinel(graph[i].v[j]))

ClearedBeforeFirstExpand ==
  /\ cleared
  /\ phase = "build"
  /\ ~root_called
  /\ graph = <<>>
  /\ visited = {}
  /\ cycles = <<>>
  /\ original_dependencies = <<>>

(***************************************************************************)
(* C17: in every session ResolveCycles runs exactly once, only after the   *)
(* last Expand of the session has returned (VisitingPath is empty), and    *)
(* before ComputeLoadOrder is called.                                      *)
(***************************************************************************)
ResolveOnceAfterTraversal ==
  /\ [][phase' # phase =>
          \/ /\ phase = "build" /\ phase' = "resolved"
             /\ stack = <<>>
             /\ visiting = <<>>
             /\ load_order = <<>>
             /\ error = "none"
          \/ phase = "resolved" /\ phase' = "done"
          \/ phase = "done" /\ phase' = "build"]_vars
  /\ [][(phase' = phase /\ phase # "build") => UNCHANGED vars]_vars
  /\ [](phase = "build" =>
          /\ load_order = <<>>
          /\ error = "none"
          /\ \A i \in 1..Len(graph) : ~IsCycleEntry(graph[i].v))
  /\ [](phase # "build" => stack = <<>> /\ visiting = <<>>)

ResolvedThenOrdered ==
  /\ phase = "done"
  /\ Len(graph) = 2
  /\ Len(load_order) = 2
  /\ IsCycleEntry(graph[1].v)
  /\ graph[2].v = <<graph[1].k, graph[2].k>>

(***************************************************************************)
(* C18: Expand applies its checks in the order depth cutoff, filter, cycle *)
(* back-edge, already-Visited, expand: a node reached at depth > maxDepth  *)
(* gets [MAX_DEPTH_REACHED] and nothing else happens, even when it matches *)
(* the filter, is on VisitingPath or is in Visited; a node matching the    *)
(* filter is recorded FILTERED before the cycle and Visited checks.        *)
(***************************************************************************)
ChecksInFixedOrder ==
  [][(phase = "build" /\ InLoop) =>
       LET node == Top.dependencies[Top.i]
           depth == Top.depth + 1
       IN IF depth > max_depth
          THEN /\ graph' = Put(graph, node, <<MAX_DEPTH_REACHED>>)
               /\ UNCHANGED <<visited, visiting, cycles, original_dependencies, fetch_log>>
               /\ stack' = Called
          ELSE IF package_filter # <<>> /\ Contains(node, package_filter)
          THEN /\ graph' = Put(graph, node, <<FILTERED>>)
               /\ UNCHANGED <<visited, visiting, cycles, original_dependencies, fetch_log>>
               /\ stack' = Called
          ELSE IF node \in Range(visiting)
          THEN /\ Has(cycles', node)
               /\ UNCHANGED <<visited, visiting, original_dependencies, fetch_log>>
               /\ stack' = Called
          ELSE IF node \in visited
          THEN /\ UNCHANGED <<store, fetch_log>>
               /\ stack' = Called
          ELSE /\ visiting' = Append(visiting, node)
               /\ Len(stack') = Len(stack) + 1
               /\ stack'[Len(stack')].package_name = node
               /\ stack'[Len(stack')].depth = depth
               /\ UNCHANGED <<graph, visited, cycles, original_dependencies, fetch_log>>]_vars

DeepNodeOnPathOnlyCut ==
  /\ phase = "build"
  /\ stack # <<>>
  /\ Top.package_name \in Range(visiting)
  /\ Top.i = 2
  /\ Top.dependencies = <<Top.package_name>>
  /\ Get(graph, Top.package_name) = <<MAX_DEPTH_REACHED>>
  /\ cycles = <<>>

DeepNodeMatchingFilterOnlyCut ==
  /\ phase = "build"
  /\ package_filter = B
  /\ Has(graph, B)
  /\ Get(graph, B) = <<MAX_DEPTH_REACHED>>

(***************************************************************************)
(* C19: when Expand reaches (at depth <= maxDepth, not filtered) a node    *)
(* that is on VisitingPath, the cycle path is the suffix of VisitingPath   *)
(* starting at that node followed by the node again; its " -> "-joined     *)
(* descriptor is added to the CycleRegistry entry of every node on that    *)
(* path and of no other node, the Dependency Source is not queried, no     *)
(* recursion happens and an existing Graph entry of the node is kept.      *)
(***************************************************************************)
Registered(cyc, n) == IF Has(cyc, n) THEN Get(cyc, n) ELSE {}

BackEdgeRegistersSuffix ==
  [][(phase = "build" /\ InLoop
        /\ Top.depth + 1 <= max_depth
        /\ ~(package_filter # <<>> /\ Contains(Top.dependencies[Top.i], package_filter))
        /\ Top.dependencies[Top.i] \in Range(visiting)) =>
       LET node == Top.dependencies[Top.i]
           from == CHOOSE i \in 1..Len(visiting) : visiting[i] = node
           suffix == [i \in 1..(Len(visiting) - from + 1) |-> visiting[from + i - 1]]
           path == Append(suffix, node)
           descriptor == Join(ARROW, path)
       IN /\ Split(descriptor, ARROW) = path
          /\ \A n \in Range(path) :
                Has(cycles', n) /\ Get(cycles', n) = Registered(cycles, n) \cup {descriptor}
          /\ \A n \in NodeIds \ Range(path) :
                /\ Has(cycles', n) <=> Has(cycles, n)
                /\ Registered(cycles', n) = Registered(cycles, n)
          /\ UNCHANGED <<visited, visiting, original_dependencies, fetch_log>>
          /\ stack' = Called
          /\ Has(graph, node) => graph' = graph
          /\ ~Has(graph, node) => graph' = Append(graph, [k |-> node, v |-> <<>>])]_vars

InnerCycleRegistered ==
  /\ phase = "build"
  /\ visiting = <<A, B, C>>
  /\ KeySet(cycles) = {B, C}
  /\ Get(cycles, B) = {<<"B", " -> ", "C", " -> ", "B">>}
  /\ Get(cycles, C) = {<<"B", " -> ", "C", " -> ", "B">>}
  /\ Get(graph, B) = <<C>>
  /\ LogNodes = {A, B, C}

(***************************************************************************)
(* C20: ResolveCycles treats each node with a non-empty CycleRegistry      *)
(* entry as follows: with P the path of the one descriptor chosen for that *)
(* node, if the node is the lexicographically smallest NodeId on P its     *)
(* Graph entry becomes the single-element list [CYCLE: <descriptor>],      *)
(* otherwise its Graph entry becomes its OriginalDependencies snapshot;    *)
(* Graph entries of nodes without a CycleRegistry entry are left           *)
(* unchanged.                                                              *)
(***************************************************************************)
SmallestOn(node, P) ==
  /\ node \in Range(P)
  /\ \A m \in Range(P) : m = node \/ StrLess(node, m)

ResolvedPerNode ==
  [][(phase = "build" /\ phase' = "resolved") =>
       /\ Keys(graph') = Keys(graph)
       /\ \A node \in NodeIds :
             IF Registered(cycles, node) # {}
             THEN \E descriptor \in Get(cycles, node) :
                    LET P == Split(descriptor, ARROW)
                    IN /\ Has(graph', node)
                       /\ Has(original_dependencies, node)
                       /\ IF SmallestOn(node, P)
                          THEN Get(graph', node) =
                                 <<CYCLE_PREFIX \o SPACE \o descriptor>>
                          ELSE Get(graph', node) = Get(original_dependencies, node)
             ELSE /\ Has(graph', node) <=> Has(graph, node)
                  /\ Has(graph, node) => Get(graph', node) = Get(graph, node)]_vars

CycleResolvedBesideUntouchedNode ==
  /\ phase = "resolved"
  /\ KeySet(cycles) = {A, B}
  /\ Get(cycles, B) = {<<"A", " -> ", "B", " -> ", "A">>}
  /\ Get(graph, A) = << <<"CYCLE:", " ", "A", " -> ", "B", " -> ", "A">> >>
  /\ Get(graph, B) = <<C, A>>
  /\ Get(original_dependencies, B) = <<C, A>>
  /\ Has(graph, C)
  /\ Get(graph, C) = <<>>

(***************************************************************************)
(* C21: for a node registered against several distinct cycle descriptors,  *)
(* ResolveCycles uses the descriptor that was inserted first into that     *)
(* node's CycleRegistry entry, so the resolved Graph is a deterministic    *)
(* function of the traversal.                                              *)
(***************************************************************************)
FirstInserted(node) ==
  cycle_log[CHOOSE i \in 1..Len(cycle_log) :
              /\ node \in Range(Split(cycle_log[i], ARROW))
              /\ \A j \in 1..(i - 1) : node \notin Range(Split(cycle_log[j], ARROW))]

ResolvesFirstInserted ==
  [][(phase = "build" /\ phase' = "resolved") =>
       graph' = process_cycles(graph, cycles, original_dependencies,
                               [i \in 1..Len(cycles) |-> FirstInserted(cycles[i].k)])]_vars

(***************************************************************************)
(* C22: in ComputeLoadOrder, when the Kahn phase has ordered fewer nodes   *)
(* than Graph has keys, the nodes not yet ordered are appended after the   *)
(* Kahn prefix in Graph key order, each once; when the Kahn phase ordered  *)
(* every key, nothing is appended and the result is the Kahn order.        *)
(***************************************************************************)
FallbackAppendsInKeyOrder ==
  (phase = "done" /\ graph # <<>>) =>
     LET kahn == KahnOrder(graph)
         n == Len(kahn)
     IN /\ Range(kahn) \subseteq KeySet(graph)
        /\ Len(load_order) >= n
        /\ \A i \in 1..n : load_order[i] = kahn[i]
        /\ Len(load_order) = Len(graph)
        /\ {load_order[i] : i \in (n + 1)..Len(load_order)} = KeySet(graph) \ Range(kahn)
        /\ \A i, j \in (n + 1)..Len(load_order) :
              i < j => Position(Keys(graph), load_order[i]) < Position(Keys(graph), load_order[j])
        /\ n = Len(graph) => load_order = kahn

TwoNodesAppendedInKeyOrder ==
  /\ phase = "done"
  /\ Len(graph) = 3
  /\ Len(KahnOrder(graph)) = 1
  /\ load_order = <<Keys(graph)[3], Keys(graph)[1], Keys(graph)[2]>>

(***************************************************************************)
(* C23: for the three-node cycle A->B, B->C, C->A after traversal and      *)
(* ResolveCycles, the Kahn phase of ComputeLoadOrder does not order all    *)
(* three nodes, and the complete three-node result is obtained through the *)
(* non-DAG fallback tail.                                                  *)
(*                                                                         *)
(* ThreeCycleNeedsFallback states this and does not hold.  As amended,     *)
(* ThreeCycleOrderedByKahn: the representative A carries only the CYCLE    *)
(* label after resolution, so the Kahn phase orders all three nodes (A,    *)
(* then C, then B) and the fallback tail appends nothing.                  *)
(***************************************************************************)
Successor(n) == IF n = A THEN B ELSE IF n = B THEN C ELSE A

ThreeCycleSource ==
  /\ Defaults
  /\ Len(fetch_log) = 3
  /\ {fetch_log[i].node : i \in 1..3} = {A, B, C}
  /\ \A i \in 1..3 : fetch_log[i].ok /\ fetch_log[i].result = <<Successor(fetch_log[i].node)>>

ThreeCycleNeedsFallback ==
  (ThreeCycleSource /\ phase = "done") =>
     /\ Len(KahnOrder(graph)) < 3
     /\ Len(load_order) = 3
     /\ Range(load_order) = {A, B, C}

ThreeCycleOrderedByKahn ==
  (ThreeCycleSource /\ phase = "done") =>
     /\ Get(graph, A) = << <<"CYCLE:", " ">> \o Last(cycle_log) >>
     /\ KahnOrder(graph) = <<A, C, B>>
     /\ load_order = KahnOrder(graph)

ThreeCycleFromRootB ==
  /\ ThreeCycleSource
  /\ phase = "done"
  /\ fetch_log[1].node = B
  /\ Keys(graph) = <<B, C, A>>
  /\ load_order = <<A, C, B>>

(***************************************************************************)
(* C24: every node on which an Expand call has returned is a key of Graph, *)
(* whichever branch was taken (depth cutoff, filter, back-edge,            *)
(* already-Visited, expand with success or failure); in particular every   *)
(* member of Visited is a Graph key and Graph is non-empty after any       *)
(* traversal that was given at least one root.                             *)
(*                                                                         *)
(* A call returns either in the step that makes it (the caller's loop      *)
(* moves on, no frame is pushed) or in the step that pops its frame.       *)
(***************************************************************************)
ReturnedNodeIsGraphKey ==
  /\ [](visited \subseteq KeySet(graph))
  /\ []((root_called /\ stack = <<>>) => graph # <<>>)
  /\ [][(phase = "build" /\ InLoop /\ stack' = Called) =>
          Has(graph', Top.dependencies[Top.i])]_vars
  /\ [][(phase = "build" /\ stack # <<>> /\ Len(stack') = Len(stack) - 1) =>
          /\ Has(graph', Top.package_name)
          /\ Top.package_name \in visited']_vars

FilteredAndCutNodesAreKeys ==
  /\ TraversalDone
  /\ Len(graph) = 3
  /\ \E n \in KeySet(graph) : Get(graph, n) = <<FILTERED>>
  /\ \E n \in KeySet(graph) : Get(graph, n) = <<MAX_DEPTH_REACHED>>
  /\ \E n \in visited : Get(graph, n) \in DepLists /\ Get(graph, n) # <<>>

(***************************************************************************)
(* C25: a node that was recorded as [MAX_DEPTH_REACHED] is not in          *)
(* Visited, and if it is later reached by Expand at a depth <= maxDepth    *)
(* (and passes the filter) it is fetched and expanded then: the call       *)
(* pushes its frame, and when the frame is popped after a successful fetch *)
(* the node is in Visited with the fetched list as its Graph entry.        *)
(***************************************************************************)
CutNodes == {n \in KeySet(graph) : Get(graph, n) = <<MAX_DEPTH_REACHED>>}

CutNodeExpandedLater ==
  /\ [](CutNodes \cap visited = {})
  /\ [][(phase = "build" /\ InLoop
           /\ Top.dependencies[Top.i] \in CutNodes
           /\ Top.depth + 1 <= max_depth
           /\ ~should_filter_package(Top.dependencies[Top.i], package_filter)) =>
          /\ Len(stack') = Len(stack) + 1
          /\ Last(stack').package_name = Top.dependencies[Top.i]
          /\ Last(stack').pc = "fetch"]_vars

(* The second half alone, for a cut node that is neither in Visited nor on *)
(* VisitingPath.                                                           *)
UnvisitedCutNodeExpandedLater ==
  [][(phase = "build" /\ InLoop
        /\ Top.dependencies[Top.i] \in CutNodes \ (visited \cup Range(visiting))
        /\ Top.depth + 1 <= max_depth
        /\ ~should_filter_package(Top.dependencies[Top.i], package_filter)) =>
       /\ Len(stack') = Len(stack) + 1
       /\ Last(stack').package_name = Top.dependencies[Top.i]
       /\ Last(stack').pc = "fetch"]_vars

CutNodeExpandedOnShorterPath ==
  /\ TraversalDone
  /\ max_depth = 1
  /\ fetch_log = << [node |-> A, ok |-> TRUE, result |-> <<B, C>>],
                    [node |-> B, ok |-> TRUE, result |-> <<C>>],
                    [node |-> C, ok |-> TRUE, result |-> <<>>] >>
  /\ Get(graph, C) = <<>>
  /\ C \in visited

(***************************************************************************)
(* C26: after a traversal has completed and before ResolveCycles runs,     *)
(* every node in Visited whose fetch succeeded has a Graph entry equal to  *)
(* its OriginalDependencies snapshot: no Expand call made after a node was *)
(* expanded changes that node's recorded edge list.                        *)
(***************************************************************************)
ExpandedEntryKeepsSnapshot ==
  /\ [](TraversalDone =>
          \A n \in visited :
             Has(original_dependencies, n) =>
                Has(graph, n) /\ Get(graph, n) = Get(original_dependencies, n))
  /\ [][(phase = "build" /\ phase' = "build") =>
          \A n \in visited \cap KeySet(original_dependencies) :
             Get(graph', n) = Get(graph, n)]_vars

(* The same with the depth branch left out: the only write to the entry of *)
(* an expanded node is the depth cutoff.                                   *)
ExpandedEntryKeptUnlessCut ==
  TraversalDone =>
     \A n \in visited :
        Has(original_dependencies, n) =>
           /\ Has(graph, n)
           /\ Get(graph, n) \in {Get(original_dependencies, n), <<MAX_DEPTH_REACHED>>}

(***************************************************************************)
(* C27: after a traversal has completed, and also after ResolveCycles, the *)
(* Graph is closed under real edges: every edge label in any Graph entry   *)
(* that is not a sentinel (MAX_DEPTH_REACHED, FILTERED, ERROR:...,         *)
(* CYCLE:...) is itself a key of Graph, so ComputeLoadOrder never counts   *)
(* an in-degree for an edge whose target is missing from the Graph.        *)
(***************************************************************************)
Label(dep, prefix) == Len(dep) >= Len(prefix) /\ [i \in 1..Len(prefix) |-> dep[i]] = prefix

RealLabels(dependencies) ==
  {dependencies[i] : i \in 1..Len(dependencies)}
  \ {dep \in Range(dependencies) :
       \/ Label(dep, MAX_DEPTH_REACHED) \/ Label(dep, FILTERED)
       \/ Label(dep, ERROR_PREFIX) \/ Label(dep, CYCLE_PREFIX)}

GraphClosedUnderRealEdges ==
  (TraversalDone \/ phase \in {"resolved", "done"}) =>
     /\ \A i \in 1..Len(graph) : RealLabels(graph[i].v) \subseteq KeySet(graph)
     /\ \A n \in KeySet(graph) :
           in_degree(graph)[n] = Cardinality({i \in 1..Len(Get(graph, n)) :
                                                 Get(graph, n)[i] \in KeySet(graph)})

ClosedWithEveryKindOfTarget ==
  /\ phase = "resolved"
  /\ Len(graph) = 3
  /\ \E n \in KeySet(graph) : Failed(n)
  /\ \E n \in KeySet(graph) : IsCycleEntry(Get(graph, n))
  /\ \E n \in KeySet(graph) : Len(Get(graph, n)) = 2 /\ RealLabels(Get(graph, n)) # {}

(***************************************************************************)
(* C28: every cycle descriptor stored in CycleRegistry describes a genuine *)
(* cycle of the fetched dependencies: its path starts and ends with the    *)
(* same NodeId, every node on it has an OriginalDependencies entry, and    *)
(* each consecutive pair (x, y) on the path satisfies                      *)
(* y in OriginalDependencies[x].                                           *)
(***************************************************************************)
DescriptorsAreGenuineCycles ==
  \A i \in 1..Len(cycles) : \A descriptor \in cycles[i].v :
     LET P == Split(descriptor, ARROW)
     IN /\ Len(P) >= 2
        /\ P[1] = P[Len(P)]
        /\ cycles[i].k \in Range(P)
        /\ \A j \in 1..Len(P) : Has(original_dependencies, P[j])
        /\ \A j \in 1..(Len(P) - 1) :
              \E k \in 1..Len(Get(original_dependencies, P[j])) :
                 Get(original_dependencies, P[j])[k] = P[j + 1]

TwoGenuineCyclesThroughOneNode ==
  /\ phase = "build"
  /\ Cardinality(Descriptors) = 2
  /\ \E n \in KeySet(cycles) : Cardinality(Get(cycles, n)) = 2
  /\ \E d \in Descriptors : Len(Split(d, ARROW)) = 4

(***************************************************************************)
(* C29: with an empty filter, no fetch failures and maxDepth at least the  *)
(* number of nodes, after ExpandAll over all nodes of a finite dependency  *)
(* relation CycleRegistry is empty if and only if the relation has no      *)
(* directed cycle (self-dependencies included), and every node that lies   *)
(* on some directed cycle found by the depth-first walk has a              *)
(* CycleRegistry entry.                                                    *)
(*                                                                         *)
(* The relation is the one the Dependency Source answered with; a node has *)
(* a directed cycle through it when it is reachable from itself in one or  *)
(* more steps.                                                             *)
(***************************************************************************)
Depends(x, y) ==
  \E k \in 1..Len(fetch_log) :
     fetch_log[k].node = x /\ fetch_log[k].ok /\ y \in Range(fetch_log[k].result)

RECURSIVE Descendants(_, _)
Descendants(seen, frontier) ==
  LET next == {y \in NodeIds : \E x \in frontier : Depends(x, y)} \ seen
  IN IF next = {} THEN seen ELSE Descendants(seen \cup next, next)

OnDirectedCycle(n) ==
  n \in Descendants({y \in NodeIds : Depends(n, y)}, {y \in NodeIds : Depends(n, y)})

AllExpanded ==
  /\ Defaults
  /\ TraversalDone \/ phase \in {"resolved", "done"}
  /\ \A n \in NodeIds : ~Failed(n)

CyclesFoundIffPresent ==
  AllExpanded =>
     /\ cycles = <<>> <=> \A n \in NodeIds : ~OnDirectedCycle(n)
     /\ \A i \in 1..Len(cycles) : cycles[i].v # {} /\ OnDirectedCycle(cycles[i].k)
     /\ \A descriptor \in Range(cycle_log) :
           \A n \in Range(Split(descriptor, ARROW)) :
              Has(cycles, n) /\ descriptor \in Get(cycles, n)

CycleFoundBesideAcyclicPart ==
  /\ AllExpanded
  /\ phase = "build"
  /\ visited = {A, B, C}
  /\ KeySet(cycles) = {B, C}
  /\ ~OnDirectedCycle(A)
  /\ Depends(A, B)

(* Only the cycles the walk closes with a back edge are registered: with   *)
(* A: [B, C], B: [A], C: [B] the walk finds A -> B -> A, then meets B as a *)
(* Visited node from C, and C, which lies on C -> B -> A -> C, gets no     *)
(* entry.                                                                  *)
NodeOnUnfoundCycleHasNoEntry ==
  /\ AllExpanded
  /\ phase = "build"
  /\ visited = {A, B, C}
  /\ \A n \in NodeIds : OnDirectedCycle(n)
  /\ KeySet(cycles) = {A, B}
  /\ Depends(C, B)

(***************************************************************************)
(* C30: in multi-root mode (build_complete_dependency_graph, used by the   *)
(* test-repository, interactive and demo paths) every root is expanded     *)
(* with an empty filter and the default maxDepth of 10, regardless of the  *)
(* configured package filter; consequently no node is ever recorded as     *)
(* [FILTERED] in multi-root mode, and after it returns every listed root   *)
(* is in Visited.                                                          *)
(*                                                                         *)
(* A listed root is either passed over because it is in Visited already    *)
(* (nothing changes) or expanded at depth 0, and it is in Visited when its *)
(* frame, the only one on the stack, is popped.                            *)
(***************************************************************************)
MultiRootUsesDefaults ==
  /\ [](package_filter = <<>> /\ max_depth = DefaultMaxDepth)
  /\ [](\A i \in 1..Len(graph) : \A j \in 1..Len(graph[i].v) :
          ~Label(graph[i].v[j], FILTERED))
  /\ [][(phase = "build" /\ stack = <<>> /\ stack' # <<>>) =>
          /\ Len(stack') = 1
          /\ stack'[1].depth = 0
          /\ stack'[1].package_name \notin visited]_vars
  /\ [][(phase = "build" /\ Len(stack) = 1 /\ stack' = <<>>) =>
          Top.package_name \in visited']_vars
  /\ [][(phase = "build" /\ phase' = "build" /\ stack = <<>> /\ stack' = <<>>) =>
          UNCHANGED store]_vars
  /\ [](phase \in {"resolved", "done"} => LogNodes \subseteq visited)

BothRootsExpandedUnfiltered ==
  /\ phase = "resolved"
  /\ fetch_log = << [node |-> B, ok |-> TRUE, result |-> <<>>],
                    [node |-> A, ok |-> TRUE, result |-> <<>>] >>
  /\ visited = {A, B}
  /\ Get(graph, B) = <<>>
  /\ should_filter_package(B, B)

====
